---- MODULE Spec2Model ----
(***************************************************************************)
(* doctomd: the HTML normalisation pipeline of src/doctomd/__init__.py.    *)
(*                                                                         *)
(* The BeautifulSoup tree is a heap of nodes addressed by identity         *)
(* (a node's id is its index in `soup`): the passes collect their matches  *)
(* with find_all before they mutate, so identity, not position, is what    *)
(* they hold on to.  A text is a sequence of characters; the characters    *)
(* the passes single out have names (SOB, EOB, NBSP, LF, CR, BT).          *)
(***************************************************************************)
EXTENDS Integers, Sequences, FiniteSets, TLC

VARIABLES
    soup,      \* the tree being rewritten in place: Seq(node)
    styles,    \* the parsed rules of each <style> element of the document
    legacy,    \* whether the bs4 build matches an empty class filter against class-less tags
    pc,        \* the pass about to run, or "done" / "raised"
    call,      \* "pipeline" (process_google_doc_html) or the HTMLCleaner method called alone
    soup0      \* the tree as it was handed in

vars == <<soup, styles, legacy, pc, call, soup0>>

----------------------------------------------------------------------------
(* Characters *)

SOB  == "<EC03>"    \* U+EC03, first line of a code building block
EOB  == "<EC02>"    \* U+EC02, last line of a code building block
NBSP == "<A0>"      \* non-breaking space
LF   == "<LF>"
CR   == "<CR>"
BT   == "<BT>"     \* the backtick

\* the characters used here that Python's whitespace class matches on str
IsSpace(c) == c \in {" ", LF, CR, NBSP}

\* what libxml2 skips as blanks at the start of a document
IsBlank(c) == c \in {" ", LF, CR}

RECURSIVE StartsWith(_, _)
StartsWith(s, sub) ==
    IF sub = <<>> THEN TRUE
    ELSE IF s = <<>> THEN FALSE
    ELSE Head(s) = Head(sub) /\ StartsWith(Tail(s), Tail(sub))

\* Python's `sub in s`
RECURSIVE Contains(_, _)
Contains(s, sub) ==
    IF StartsWith(s, sub) THEN TRUE
    ELSE IF s = <<>> THEN FALSE
    ELSE Contains(Tail(s), sub)

RECURSIVE DropSpaces(_)
DropSpaces(s) == IF s # <<>> /\ IsSpace(Head(s)) THEN DropSpaces(Tail(s)) ELSE s

\* re.sub(r"\n\s+", r" ", s)
RECURSIVE CollapseBreaks(_)
CollapseBreaks(s) ==
    IF s = <<>> THEN <<>>
    ELSE IF Head(s) = LF /\ Len(s) >= 2 /\ IsSpace(s[2])
         THEN <<" ">> \o CollapseBreaks(DropSpaces(Tail(s)))
         ELSE <<Head(s)>> \o CollapseBreaks(Tail(s))

\* s.translate(str.maketrans("\xa0", " "))
TranslateNbsp(s) == [i \in 1..Len(s) |-> IF s[i] = NBSP THEN " " ELSE s[i]]

RECURSIVE JoinWith(_, _)
JoinWith(sep, lines) ==
    IF lines = <<>> THEN <<>>
    ELSE IF Len(lines) = 1 THEN lines[1]
    ELSE lines[1] \o sep \o JoinWith(sep, Tail(lines))

----------------------------------------------------------------------------
(* Nodes *)

\* node 1 is <html>, node 2 is <body>
ROOT == 1
BODY == 2

TEXT == "#text"
GONE == "#decomposed"

\* an attribute that is not there is "-" (id, style) or the empty sequence (class, href)
NoAttrs == [id |-> "-", class |-> <<>>, style |-> "-", href |-> <<>>]

NewTag(name, par)    == [tag |-> name, chars |-> <<>>, attrs |-> NoAttrs,
                         kids |-> <<>>, parent |-> par, live |-> TRUE]
NewString(cs, par)   == [tag |-> TEXT, chars |-> cs, attrs |-> NoAttrs,
                         kids |-> <<>>, parent |-> par, live |-> TRUE]

IsString(h, n) == h[n].tag = TEXT
IsTag(h, n)    == h[n].tag # TEXT

Range(s) == {s[i] : i \in 1..Len(s)}
Without(s, x) == SelectSeq(s, LAMBDA y : y # x)
IndexOf(s, x) == CHOOSE i \in 1..Len(s) : s[i] = x

\* PageElement.previous_sibling / next_sibling: 0 is None
PreviousSibling(h, n) ==
    IF h[n].parent = 0 THEN 0
    ELSE LET ks == h[h[n].parent].kids
             i  == IndexOf(ks, n)
         IN IF i = 1 THEN 0 ELSE ks[i - 1]

NextSiblings(h, n) ==
    IF h[n].parent = 0 THEN <<>>
    ELSE LET ks == h[h[n].parent].kids
         IN SubSeq(ks, IndexOf(ks, n) + 1, Len(ks))

\* Tag.descendants, in document order
RECURSIVE DescOfSeq(_, _)
DescOfSeq(h, ks) ==
    IF ks = <<>> THEN <<>>
    ELSE <<Head(ks)>> \o DescOfSeq(h, h[Head(ks)].kids) \o DescOfSeq(h, Tail(ks))

Descendants(h, n) == DescOfSeq(h, h[n].kids)

\* find_all(name) below n: a list made before anything is changed
FindAll(h, n, name) == SelectSeq(Descendants(h, n), LAMBDA d : h[d].tag = name)

FindAllTags(h, n) == SelectSeq(Descendants(h, n), LAMBDA d : IsTag(h, d))

\* soup.find_all(True): every element of the document, <html> included
SoupTags(h) == <<ROOT>> \o FindAllTags(h, ROOT)

\* Tag.strings joined: the text of every string below n, in document order
RECURSIVE TextOfSeq(_, _)
TextOfSeq(h, ds) ==
    IF ds = <<>> THEN <<>>
    ELSE (IF IsString(h, Head(ds)) THEN h[Head(ds)].chars ELSE <<>>)
         \o TextOfSeq(h, Tail(ds))

GetText(h, n) ==
    IF IsString(h, n) THEN h[n].chars ELSE TextOfSeq(h, Descendants(h, n))

\* Tag.string: the id of the single string below a chain of only children, 0 for None
RECURSIVE StringOf(_, _)
StringOf(h, n) ==
    IF Len(h[n].kids) # 1 THEN 0
    ELSE IF IsString(h, h[n].kids[1]) THEN h[n].kids[1]
    ELSE StringOf(h, h[n].kids[1])

\* PageElement.extract
Extract(h, n) ==
    IF h[n].parent = 0 THEN h
    ELSE [h EXCEPT ![h[n].parent].kids = Without(@, n), ![n].parent = 0]

\* Tag.decompose: extract, then clear the node and everything below it
Decompose(h, n) ==
    LET dead == {n} \cup Range(Descendants(h, n))
        h1   == Extract(h, n)
    IN [i \in 1..Len(h1) |->
          IF i \in dead
          THEN [h1[i] EXCEPT !.tag = IF h1[i].tag = TEXT THEN TEXT ELSE GONE,
                             !.attrs = NoAttrs, !.kids = <<>>,
                             !.parent = 0, !.live = FALSE]
          ELSE h1[i]]

RECURSIVE DecomposeAll(_, _)
DecomposeAll(h, ns) ==
    IF ns = <<>> THEN h ELSE DecomposeAll(Decompose(h, Head(ns)), Tail(ns))

\* Tag.unwrap (n has a parent): n's children take n's place
Unwrap(h, n) ==
    LET p  == h[n].parent
        ks == h[p].kids
        i  == IndexOf(ks, n)
        cs == h[n].kids
    IN [j \in 1..Len(h) |->
          IF j = p THEN [h[j] EXCEPT !.kids = SubSeq(ks, 1, i - 1) \o cs \o SubSeq(ks, i + 1, Len(ks))]
          ELSE IF j = n THEN [h[j] EXCEPT !.kids = <<>>, !.parent = 0]
          ELSE IF j \in Range(cs) THEN [h[j] EXCEPT !.parent = p]
          ELSE h[j]]

\* Tag.clear(): every child is extracted
Clear(h, n) ==
    LET cs == Range(h[n].kids)
    IN [j \in 1..Len(h) |->
          IF j = n THEN [h[j] EXCEPT !.kids = <<>>]
          ELSE IF j \in cs THEN [h[j] EXCEPT !.parent = 0]
          ELSE h[j]]

\* Tag.append(str): a new NavigableString at the end of n
AppendString(h, n, cs) ==
    LET new == Len(h) + 1
    IN [Append(h, NewString(cs, n)) EXCEPT ![n].kids = Append(@, new)]

\* tag.string = cs
SetString(h, n, cs) == AppendString(Clear(h, n), n, cs)

\* Tag.append(el) for an element that is in the tree: it moves
MoveInto(h, n, el) ==
    LET h1 == Extract(h, el)
    IN [h1 EXCEPT ![n].kids = Append(@, el), ![el].parent = n]

RECURSIVE MoveAllInto(_, _, _)
MoveAllInto(h, n, els) ==
    IF els = <<>> THEN h ELSE MoveAllInto(MoveInto(h, n, Head(els)), n, Tail(els))

\* PageElement.replace_with(str)
ReplaceWithString(h, n, cs) ==
    LET p   == h[n].parent
        new == Len(h) + 1
        h1  == Append(h, NewString(cs, p))
    IN [h1 EXCEPT ![p].kids = [i \in 1..Len(@) |-> IF @[i] = n THEN new ELSE @[i]],
                  ![n].parent = 0]

\* Tag.smooth() on one element's own children: adjacent strings become one new string
RECURSIVE SmoothKids(_, _, _)
SmoothKids(h, n, i) ==
    LET ks == h[n].kids
    IN IF i >= Len(ks) THEN h
       ELSE IF IsString(h, ks[i]) /\ IsString(h, ks[i + 1])
            THEN LET new == Len(h) + 1
                     h1  == Append(h, NewString(h[ks[i]].chars \o h[ks[i + 1]].chars, n))
                 IN SmoothKids(
                      [h1 EXCEPT ![n].kids = SubSeq(ks, 1, i - 1) \o <<new>> \o SubSeq(ks, i + 2, Len(ks)),
                                 ![ks[i]].parent = 0, ![ks[i + 1]].parent = 0],
                      n, i)
            ELSE SmoothKids(h, n, i + 1)

RECURSIVE SmoothEach(_, _)
SmoothEach(h, ns) ==
    IF ns = <<>> THEN h ELSE SmoothEach(SmoothKids(h, Head(ns), 1), Tail(ns))

\* Tag.smooth(): n and every element below it
Smooth(h, n) == SmoothEach(h, <<n>> \o FindAllTags(h, n))

----------------------------------------------------------------------------
(* Building a tree from markup: what BeautifulSoup(html, "lxml") hands over *)

Tx(cs)            == [tag |-> TEXT, chars |-> cs, attrs |-> NoAttrs, kids |-> <<>>]
El(name, ks)      == [tag |-> name, chars |-> <<>>, attrs |-> NoAttrs, kids |-> ks]
ElC(name, cl, ks) == [tag |-> name, chars |-> <<>>, attrs |-> [NoAttrs EXCEPT !.class = cl], kids |-> ks]
ElA(name, at, ks) == [tag |-> name, chars |-> <<>>, attrs |-> at, kids |-> ks]

RECURSIVE AddTree(_, _, _)
RECURSIVE AddTrees(_, _, _)
AddTree(h, t, par) ==
    LET id == Len(h) + 1
        h1 == Append(h, [tag |-> t.tag, chars |-> t.chars, attrs |-> t.attrs,
                         kids |-> <<>>, parent |-> par, live |-> TRUE])
        h2 == IF par = 0 THEN h1 ELSE [h1 EXCEPT ![par].kids = Append(@, id)]
    IN AddTrees(h2, t.kids, id)

AddTrees(h, ts, par) ==
    IF ts = <<>> THEN h ELSE AddTrees(AddTree(h, Head(ts), par), Tail(ts), par)

Parse(blocks) == AddTree(<<>>, El("html", <<El("body", blocks)>>), 0)

----------------------------------------------------------------------------
(* A pass returns the tree it leaves and whether it returned (ok) or raised *)

Ok(h)     == [h |-> h, ok |-> TRUE]
Raised(h) == [h |-> h, ok |-> FALSE]

CONTAINERS == {"p", "div", "td"}

----------------------------------------------------------------------------
(* remove_single_cell_tables *)

RECURSIVE TablesLoop(_, _)
TablesLoop(h, tables) ==
    IF tables = <<>> THEN h
    ELSE LET table == Head(tables)
             rows  == FindAll(h, table, "tr")
             cells == IF Len(rows) = 1 THEN FindAll(h, rows[1], "td") ELSE <<>>
         IN TablesLoop(
              IF Len(rows) = 1 /\ Len(cells) = 1
              THEN Unwrap(Unwrap(Unwrap(h, cells[1]), rows[1]), table)
              ELSE h,
              Tail(tables))

remove_single_cell_tables(h) == Ok(TablesLoop(h, FindAll(h, ROOT, "table")))

----------------------------------------------------------------------------
(* process_building_block_code *)

\* a span matched by find("span", string=c): its .string is exactly the one character
IsMarkSpan(h, n, c) ==
    /\ h[n].tag = "span"
    /\ StringOf(h, n) # 0
    /\ h[StringOf(h, n)].chars = <<c>>

RECURSIVE ReplaceBrs(_, _)
ReplaceBrs(h, brs) ==
    IF brs = <<>> THEN h
    ELSE ReplaceBrs(ReplaceWithString(h, Head(brs), <<LF>>), Tail(brs))

\* flatten_html_line: changes the line (br -> "\n", smooth) and returns its text
flatten_html_line(h, line) ==
    LET h1 == Smooth(ReplaceBrs(h, FindAll(h, line, "br")), line)
    IN [h |-> h1, text |-> CollapseBreaks(GetText(h1, line))]

RECURSIVE FlattenLines(_, _)
FlattenLines(h, lines) ==
    IF lines = <<>> THEN [h |-> h, texts |-> <<>>]
    ELSE LET one  == flatten_html_line(h, Head(lines))
             rest == FlattenLines(one.h, Tail(lines))
         IN [h |-> rest.h, texts |-> <<one.text>> \o rest.texts]

\* a loop over the siblings that stops before the paragraph holding the end span
RECURSIVE CollectLines_exclusive(_, _)
CollectLines_exclusive(h, sibs) ==
    IF sibs = <<>> THEN [h |-> h, paras |-> <<>>]
    ELSE LET para == Head(sibs)
             ends == SelectSeq(Descendants(h, para), LAMBDA d : IsMarkSpan(h, d, EOB))
         IN IF IsString(h, para) THEN CollectLines_exclusive(h, Tail(sibs))
            ELSE IF ends # <<>> THEN [h |-> Decompose(h, ends[1]), paras |-> <<>>]
            ELSE LET rest == CollectLines_exclusive(h, Tail(sibs))
                 IN [h |-> rest.h, paras |-> <<para>> \o rest.paras]

\* the loop over start_para.next_siblings: Tags are collected up to and including
\* the first that holds an end span, whose span is decomposed
RECURSIVE CollectLines(_, _)
CollectLines(h, sibs) ==
    IF sibs = <<>> THEN [h |-> h, paras |-> <<>>]
    ELSE LET para == Head(sibs)
             ends == SelectSeq(Descendants(h, para), LAMBDA d : IsMarkSpan(h, d, EOB))
         IN IF IsString(h, para) THEN CollectLines(h, Tail(sibs))
            ELSE IF ends # <<>> THEN [h |-> Decompose(h, ends[1]), paras |-> <<para>>]
            ELSE LET rest == CollectLines(h, Tail(sibs))
                 IN [h |-> rest.h, paras |-> <<para>> \o rest.paras]

\* PageElement.insert_before(new element) for a node that has a parent
InsertBefore(h, n, new) ==
    LET p  == h[n].parent
        ks == h[p].kids
        i  == IndexOf(ks, n)
    IN [h EXCEPT ![p].kids = SubSeq(ks, 1, i - 1) \o <<new>> \o SubSeq(ks, i, Len(ks)),
                 ![new].parent = p]

\* one iteration of the loop over the start spans
BuildingBlock(h, start_span) ==
    LET start_para == h[start_span].parent
    IN IF start_para = 0 \/ h[start_para].parent = 0
       THEN Raised(h)   \* None.next_siblings, or insert_before on a parentless element
       ELSE LET h1   == Decompose(h, start_span)
                col  == CollectLines(h1, NextSiblings(h1, start_para))
                line_paras == <<start_para>> \o col.paras
                flat == FlattenLines(col.h, line_paras)
                code_content == TranslateNbsp(JoinWith(<<LF>>, flat.texts))
                pre  == Len(flat.h) + 1
                h2   == SetString(Append(flat.h, NewTag("pre", 0)), pre, code_content)
                h3   == InsertBefore(h2, start_para, pre)
            IN Ok(DecomposeAll(h3, line_paras))

RECURSIVE BuildingBlocks(_, _)
BuildingBlocks(h, spans) ==
    IF spans = <<>> THEN Ok(h)
    ELSE LET r == BuildingBlock(h, Head(spans))
         IN IF r.ok THEN BuildingBlocks(r.h, Tail(spans)) ELSE r

process_building_block_code(h) ==
    BuildingBlocks(h, SelectSeq(Descendants(h, ROOT), LAMBDA d : IsMarkSpan(h, d, SOB)))

----------------------------------------------------------------------------
(* The embedded stylesheet: each <style> element as cssutils parses it, a   *)
(* sequence of style rules [selector, family, weight, fstyle].  A selector  *)
(* and a font-family value are texts; a declaration that is not there is    *)
(* <<>> (family, fstyle) or NoWeight.                                       *)

DQ == "<dq>"    \* "
SQ == "<sq>"    \* '

NoWeight     == [given |-> FALSE, numeric |-> FALSE, n |-> 0]
Weight(n)    == [given |-> TRUE, numeric |-> TRUE, n |-> n]
WeightWord   == [given |-> TRUE, numeric |-> FALSE, n |-> 0]    \* bold, normal, ...

Rule(sel, family, weight, fstyle) ==
    [selector |-> sel, family |-> family, weight |-> weight, fstyle |-> fstyle]

RECURSIVE LStrip(_, _)
LStrip(s, cs) == IF s # <<>> /\ Head(s) \in cs THEN LStrip(Tail(s), cs) ELSE s

RECURSIVE RStrip(_, _)
RStrip(s, cs) ==
    IF s # <<>> /\ s[Len(s)] \in cs THEN RStrip(SubSeq(s, 1, Len(s) - 1), cs) ELSE s

\* str.strip(cs)
Strip(s, cs) == RStrip(LStrip(s, cs), cs)

\* str.lower() on the font names used here
Lower(w) ==
    CASE w = "Courier New" -> "courier new"
      [] w = "Consolas"    -> "consolas"
      [] w = "Roboto Mono" -> "roboto mono"
      [] w = "Arial"       -> "arial"
      [] OTHER             -> w

CODE_FONTS == {"fira mono", "roboto mono", "source code pro", "courier new", "consolas"}

is_code_font(f) ==
    LET g == Strip(Strip(f, {" ", LF}), {SQ, DQ})
    IN Len(g) = 1 /\ Lower(g[1]) \in CODE_FONTS

\* rule.selectorText.strip().strip(".")
SelectorClass(rule) == Strip(Strip(rule.selector, {" ", LF}), {"."})

RECURSIVE AllRules(_)
AllRules(sheets) == IF sheets = <<>> THEN <<>> ELSE Head(sheets) \o AllRules(Tail(sheets))

\* _extract_code_styles: the set of class names whose rule names a code font
extract_code_styles(sheets) ==
    {SelectorClass(r) : r \in {x \in Range(AllRules(sheets)) : x.family # <<>> /\ is_code_font(x.family)}}

\* find_all("span", class_=classes): the class filter on one tag.  A tag with no
\* class attribute is matched by an empty filter in the bs4 builds that treat
\* None as matching an empty list, and by no filter in the others.
ClassMatches(cl, classes, lgc) ==
    IF cl = <<>> THEN lgc /\ classes = {}
    ELSE \E i \in 1..Len(cl) : <<cl[i]>> \in classes

FindSpans(h, classes, lgc) ==
    SelectSeq(Descendants(h, ROOT),
              LAMBDA d : h[d].tag = "span" /\ ClassMatches(h[d].attrs.class, classes, lgc))

----------------------------------------------------------------------------
(* mark_code_blocks *)

\* the body of the first loop, for one span of the list
MarkSpan(h, span) ==
    LET p == h[span].parent
    IN IF p = 0 THEN Raised(h)    \* span.parent is None: None.name
       ELSE IF h[p].tag \notin CONTAINERS THEN Ok(h)
       ELSE IF Len(h[p].kids) = 1
       THEN LET prev == PreviousSibling(h, p)
                str  == StringOf(h, p)
                text == IF str = 0 THEN <<>> ELSE h[str].chars
            IN IF prev = 0 \/ h[prev].tag # "pre"
               THEN Ok(SetString([h EXCEPT ![p].tag = "pre"], p, text))
               ELSE Ok(Decompose(AppendString(AppendString(h, prev, <<CR, LF>>), prev, text), p))
       ELSE LET prev == PreviousSibling(h, span)
            IN IF prev # 0 /\ h[prev].tag = "code"
               THEN Ok(Decompose(MoveAllInto(h, prev, h[span].kids), span))
               ELSE Ok([h EXCEPT ![span].tag = "code"])

RECURSIVE MarkSpans(_, _)
MarkSpans(h, spans) ==
    IF spans = <<>> THEN Ok(h)
    ELSE LET r == MarkSpan(h, Head(spans))
         IN IF r.ok THEN MarkSpans(r.h, Tail(spans)) ELSE r

\* a second loop that makes a pre of the container whatever else it holds
MarkCode_any_container(h, code) ==
    LET brs == SelectSeq(h[code].kids, LAMBDA k : h[k].tag = "br")
        h1  == IF FindAll(h, code, "br") # <<>> THEN ReplaceBrs(h, brs) ELSE h
        p   == h1[code].parent
    IN IF p = 0 THEN Raised(h1)
       ELSE IF h1[p].tag \in CONTAINERS
       THEN Ok([Unwrap(h1, code) EXCEPT ![p].tag = "pre"])
       ELSE Ok(h1)

\* the body of the second loop, for one code element of the list
MarkCode(h, code) ==
    LET brs == SelectSeq(h[code].kids, LAMBDA k : h[k].tag = "br")
        h1  == IF FindAll(h, code, "br") # <<>> THEN ReplaceBrs(h, brs) ELSE h
        p   == h1[code].parent
    IN IF p = 0 THEN Raised(h1)
       ELSE IF h1[p].tag \in CONTAINERS /\ Len(h1[p].kids) = 1
       THEN Ok([Unwrap(h1, code) EXCEPT ![p].tag = "pre"])
       ELSE Ok(h1)

RECURSIVE MarkCodes(_, _)
MarkCodes(h, codes) ==
    IF codes = <<>> THEN Ok(h)
    ELSE LET r == MarkCode(h, Head(codes))
         IN IF r.ok THEN MarkCodes(r.h, Tail(codes)) ELSE r

mark_code_blocks(h, sheets, lgc) ==
    LET first == MarkSpans(h, FindSpans(h, extract_code_styles(sheets), lgc))
    IN IF ~first.ok THEN first
       ELSE LET h1 == Smooth(first.h, ROOT)
            IN MarkCodes(h1, FindAll(h1, ROOT, "code"))

----------------------------------------------------------------------------
(* extract_span_styles / replace_style_spans *)

\* the dict built rule by rule: `order` is the order in which its keys were first
\* set, b and i the class lists; int() of a font-weight that is no number raises
RECURSIVE SpanStyles(_, _)
SpanStyles(rules, acc) ==
    IF rules = <<>> \/ ~acc.ok THEN acc
    ELSE LET r  == Head(rules)
             cl == SelectorClass(r)
         IN IF r.weight.given /\ ~r.weight.numeric THEN [acc EXCEPT !.ok = FALSE]
            ELSE LET bold   == r.weight.given /\ r.weight.n > 400
                     italic == r.fstyle = <<"italic">>
                     a1 == IF bold
                           THEN [acc EXCEPT !.b = Append(@, cl),
                                            !.order = IF "b" \in Range(@) THEN @ ELSE Append(@, "b")]
                           ELSE acc
                     a2 == IF italic
                           THEN [a1 EXCEPT !.i = Append(@, cl),
                                           !.order = IF "i" \in Range(@) THEN @ ELSE Append(@, "i")]
                           ELSE a1
                 IN SpanStyles(Tail(rules), a2)

extract_span_styles(sheets) ==
    SpanStyles(AllRules(sheets), [ok |-> TRUE, order |-> <<>>, b |-> <<>>, i |-> <<>>])

RECURSIVE Rename(_, _, _)
Rename(h, ns, name) ==
    IF ns = <<>> THEN h ELSE Rename([h EXCEPT ![Head(ns)].tag = name], Tail(ns), name)

\* a loop that picks the elements by class alone, whatever their tag has become
RECURSIVE RetagSpans_any_tag(_, _, _, _)
RetagSpans_any_tag(h, keys, st, lgc) ==
    IF keys = <<>> THEN h
    ELSE LET new_tag == Head(keys)
             classes == Range(IF new_tag = "b" THEN st.b ELSE st.i)
             found   == SelectSeq(Descendants(h, ROOT),
                            LAMBDA d : h[d].tag \in {"span", "b", "i"}
                                       /\ ClassMatches(h[d].attrs.class, classes, lgc))
         IN RetagSpans_any_tag(Rename(h, found, new_tag), Tail(keys), st, lgc)

\* the loop over span_styles.items(): a fresh find_all for each key
RECURSIVE RetagSpans(_, _, _, _)
RetagSpans(h, keys, st, lgc) ==
    IF keys = <<>> THEN h
    ELSE LET new_tag == Head(keys)
             classes == Range(IF new_tag = "b" THEN st.b ELSE st.i)
         IN RetagSpans(Rename(h, FindSpans(h, classes, lgc), new_tag), Tail(keys), st, lgc)

replace_style_spans(h, sheets, lgc) ==
    LET span_styles == extract_span_styles(sheets)
    IN IF ~span_styles.ok THEN Raised(h)
       ELSE Ok(RetagSpans(h, span_styles.order, span_styles, lgc))

----------------------------------------------------------------------------
(* fix_google_links.  An href is a text whose pieces are the separators     *)
(* "?", "&", "=", "#" and the runs between them.                            *)

GOOGLE_URL == "https://www.google.com/url"

RECURSIVE UpTo(_, _)
UpTo(s, stops) ==
    IF s = <<>> \/ Head(s) \in stops THEN <<>> ELSE <<Head(s)>> \o UpTo(Tail(s), stops)

RECURSIVE After(_, _)
After(s, stops) ==
    IF s = <<>> THEN <<>> ELSE IF Head(s) \in stops THEN Tail(s) ELSE After(Tail(s), stops)

\* urlparse(href).query
QueryOf(href) == UpTo(After(href, {"?"}), {"#"})

\* a percent escape in a query, and what parse_qs makes of an escaped value
PCT3F == "%3F"

Unquote(v) == [i \in 1..Len(v) |-> IF v[i] = PCT3F THEN "?" ELSE v[i]]

\* parse_qs(query)[key][0], <<>> for a KeyError: fields with a blank value are dropped
RECURSIVE FirstValue(_, _)
FirstValue(query, key) ==
    IF query = <<>> THEN <<>>
    ELSE LET field == UpTo(query, {"&"})
             name  == UpTo(field, {"="})
             value == After(field, {"="})
         IN IF name = <<key>> /\ value # <<>> THEN Unquote(value)
            ELSE FirstValue(After(query, {"&"}), key)

RECURSIVE FixLinks(_, _)
FixLinks(h, links) ==
    IF links = <<>> THEN Ok(h)
    ELSE LET q == FirstValue(QueryOf(h[Head(links)].attrs.href), "q")
         IN IF q = <<>> THEN Raised(h)
            ELSE FixLinks([h EXCEPT ![Head(links)].attrs.href = q], Tail(links))

fix_google_links(h) ==
    FixLinks(h, SelectSeq(FindAll(h, ROOT, "a"),
                          LAMBDA a : GOOGLE_URL \in Range(h[a].attrs.href)))

----------------------------------------------------------------------------
(* remove_ids, remove_classes, remove_styles *)

remove_ids(h) ==
    Ok([n \in 1..Len(h) |->
          IF n \in Range(SoupTags(h)) THEN [h[n] EXCEPT !.attrs.id = "-"] ELSE h[n]])

remove_classes(h) ==
    Ok([n \in 1..Len(h) |->
          IF n \in Range(SoupTags(h)) THEN [h[n] EXCEPT !.attrs.class = <<>>] ELSE h[n]])

\* a remove_styles that looks for the attribute under another name
remove_styles_skipped(h) == Ok(h)

remove_styles(h) ==
    Ok([n \in 1..Len(h) |->
          IF n \in Range(SoupTags(h)) THEN [h[n] EXCEPT !.attrs.style = "-"] ELSE h[n]])

----------------------------------------------------------------------------
(* identify_code_blocks *)

IMPORT_ == <<"i", "m", "p", "o", "r", "t", " ">>
DEF_    == <<"d", "e", "f", " ">>

\* "".join(pre.contents) takes strings only
RECURSIVE IdentifyLoop(_, _)
IdentifyLoop(h, pres) ==
    IF pres = <<>> THEN Ok(h)
    ELSE LET pre  == Head(pres)
             code == TextOfSeq(h, h[pre].kids)
         IN IF \E k \in Range(h[pre].kids) : IsTag(h, k) THEN Raised(h)
            ELSE IdentifyLoop(
                   IF Contains(code, IMPORT_) \/ Contains(code, DEF_)
                   THEN [h EXCEPT ![pre].attrs.class = <<"python">>]
                   ELSE h,
                   Tail(pres))

identify_code_blocks(h) == IdentifyLoop(h, FindAll(h, ROOT, "pre"))

----------------------------------------------------------------------------
(* fix_backticks *)

\* a piece of the substituted string: plain text, or <code>text</code>
Plain(cs)  == [code |-> FALSE, chars |-> cs]
Coded(cs)  == [code |-> TRUE, chars |-> cs]

\* re.sub(r"`(.*?)`", r"<code>\1</code>", s): `.` does not match a line feed, so a
\* backtick pairs with the next backtick only if no line feed lies between them
RECURSIVE BacktickSub(_, _)
BacktickSub(s, plain) ==
    IF s = <<>> THEN IF plain = <<>> THEN <<>> ELSE <<Plain(plain)>>
    ELSE IF Head(s) = BT
    THEN LET inner == UpTo(Tail(s), {BT, LF})
             rest  == SubSeq(s, Len(inner) + 2, Len(s))
         IN IF rest # <<>> /\ Head(rest) = BT
            THEN (IF plain = <<>> THEN <<>> ELSE <<Plain(plain)>>)
                 \o <<Coded(inner)>> \o BacktickSub(Tail(rest), <<>>)
            ELSE BacktickSub(Tail(s), Append(plain, BT))
    ELSE BacktickSub(Tail(s), Append(plain, Head(s)))

RECURSIVE DropBlanks(_)
DropBlanks(s) == IF s # <<>> /\ IsBlank(Head(s)) THEN DropBlanks(Tail(s)) ELSE s

\* BeautifulSoup(markup, "lxml").html.body, then its <p> if it has one: the parser
\* skips the blanks the markup starts with, wraps text the markup starts with in a
\* <p>, and leaves markup that starts with an element directly in <body>; either
\* way the extracted contents are the pieces in order
ParsedContents(pieces) ==
    IF pieces # <<>> /\ ~pieces[1].code
    THEN LET first == DropBlanks(pieces[1].chars)
         IN (IF first = <<>> THEN <<>> ELSE <<Plain(first)>>) \o Tail(pieces)
    ELSE pieces

\* a character that stands for a run of text spelling a void element with an id,
\* <img id="k">: text to every pass, markup to the parser
IMG == "<img id=k>"

\* the parser on the text of one piece: strings, and an element for each run of markup
RECURSIVE AppendParsed(_, _, _)
AppendParsed(h, tag, cs) ==
    IF cs = <<>> THEN h
    ELSE IF Head(cs) = IMG
    THEN LET new == Len(h) + 1
         IN AppendParsed(
              [Append(h, [NewTag("img", tag) EXCEPT !.attrs.id = "k"]) EXCEPT ![tag].kids = Append(@, new)],
              tag, Tail(cs))
    ELSE LET run == UpTo(cs, {IMG})
         IN AppendParsed(AppendString(h, tag, run), tag, SubSeq(cs, Len(run) + 1, Len(cs)))

\* tag.extend(new_contents): each piece as parsed, a <code> around a coded piece
RECURSIVE ExtendWith(_, _, _)
ExtendWith(h, tag, pieces) ==
    IF pieces = <<>> THEN h
    ELSE LET pc1 == Head(pieces)
             new == Len(h) + 1
         IN IF ~pc1.code THEN ExtendWith(AppendParsed(h, tag, pc1.chars), tag, Tail(pieces))
            ELSE LET h1 == [Append(h, NewTag("code", tag)) EXCEPT ![tag].kids = Append(@, new)]
                 IN ExtendWith(AppendParsed(h1, new, pc1.chars), tag, Tail(pieces))

\* find_all(True, string=re.compile("`")): the tags whose .string has a backtick
HasBacktickString(h, n) == StringOf(h, n) # 0 /\ BT \in Range(h[StringOf(h, n)].chars)

RECURSIVE BacktickLoop(_, _)
BacktickLoop(h, tags) ==
    IF tags = <<>> THEN h
    ELSE LET tag == Head(tags)
         IN IF Len(h[tag].kids) = 1 /\ IsTag(h, h[tag].kids[1])
            THEN BacktickLoop(h, Tail(tags))
            ELSE LET str == StringOf(h, tag)
                     new_contents == ParsedContents(BacktickSub(h[str].chars, <<>>))
                 IN BacktickLoop(ExtendWith(Clear(h, tag), tag, new_contents), Tail(tags))

fix_backticks(h) ==
    LET h1 == Smooth(h, ROOT)
    IN Ok(BacktickLoop(h1, SelectSeq(SoupTags(h1), LAMBDA n : HasBacktickString(h1, n))))

----------------------------------------------------------------------------
(* remove_empty_paras *)

RECURSIVE UnwrapAll(_, _)
UnwrapAll(h, ns) ==
    IF ns = <<>> THEN h ELSE UnwrapAll(Unwrap(h, Head(ns)), Tail(ns))

remove_empty_paras(h) ==
    LET h1 == UnwrapAll(h, FindAll(h, ROOT, "span"))
    IN Ok(UnwrapAll(h1, SelectSeq(FindAll(h1, ROOT, "p"), LAMBDA n : h1[n].kids = <<>>)))

----------------------------------------------------------------------------
(* Reading a tree back: the markup below a node, without the identities *)

RECURSIVE Markup(_, _)
RECURSIVE MarkupOfSeq(_, _)
Markup(h, n) ==
    [tag |-> h[n].tag, chars |-> h[n].chars, attrs |-> h[n].attrs,
     kids |-> MarkupOfSeq(h, h[n].kids)]

MarkupOfSeq(h, ks) ==
    IF ks = <<>> THEN <<>> ELSE <<Markup(h, Head(ks))>> \o MarkupOfSeq(h, Tail(ks))

\* the children of <body>, as markup
Body(h) == MarkupOfSeq(h, h[BODY].kids)

----------------------------------------------------------------------------
(* process_google_doc_html runs the passes in this order; a test or a caller *)
(* may also call one HTMLCleaner method on a tree.                           *)

PIPELINE == <<"remove_single_cell_tables", "process_building_block_code",
              "mark_code_blocks", "replace_style_spans", "fix_google_links",
              "remove_ids", "remove_classes", "remove_styles",
              "identify_code_blocks", "fix_backticks", "remove_empty_paras">>

After_(name) ==
    LET i == IndexOf(PIPELINE, name)
    IN IF i = Len(PIPELINE) THEN "done" ELSE PIPELINE[i + 1]

\* one pass: the tree it leaves, and where control goes
Step(name, r) ==
    /\ pc = name
    /\ soup' = r.h
    /\ pc' = IF ~r.ok THEN "raised"
             ELSE IF call = "pipeline" THEN After_(name) ELSE "done"
    /\ UNCHANGED <<styles, legacy, call, soup0>>

RemoveSingleCellTables   == Step("remove_single_cell_tables", remove_single_cell_tables(soup))
ProcessBuildingBlockCode == Step("process_building_block_code", process_building_block_code(soup))
MarkCodeBlocks           == Step("mark_code_blocks", mark_code_blocks(soup, styles, legacy))
ReplaceStyleSpans        == Step("replace_style_spans", replace_style_spans(soup, styles, legacy))
FixGoogleLinks           == Step("fix_google_links", fix_google_links(soup))
RemoveIds                == Step("remove_ids", remove_ids(soup))
RemoveClasses            == Step("remove_classes", remove_classes(soup))
RemoveStyles             == Step("remove_styles", remove_styles(soup))
IdentifyCodeBlocks       == Step("identify_code_blocks", identify_code_blocks(soup))
FixBackticks             == Step("fix_backticks", fix_backticks(soup))
RemoveEmptyParas         == Step("remove_empty_paras", remove_empty_paras(soup))

Next ==
    \/ RemoveSingleCellTables
    \/ ProcessBuildingBlockCode
    \/ MarkCodeBlocks
    \/ ReplaceStyleSpans
    \/ FixGoogleLinks
    \/ RemoveIds
    \/ RemoveClasses
    \/ RemoveStyles
    \/ IdentifyCodeBlocks
    \/ FixBackticks
    \/ RemoveEmptyParas

\* the documents of every length up to n whose body is made of the given blocks
Documents(blocks, n) == UNION {[1..k -> blocks] : k \in 1..n}

\* a call: a document, its stylesheets, the bs4 build, and what is called on it
InitWith(docs, sheets, builds, calls) ==
    \E doc \in docs, sh \in sheets, lg \in builds, c \in calls :
        /\ soup = Parse(doc)
        /\ soup0 = Parse(doc)
        /\ styles = sh
        /\ legacy = lg
        /\ call = c
        /\ pc = IF c = "pipeline" THEN PIPELINE[1] ELSE c

----------------------------------------------------------------------------
(* Documents *)

\* the stylesheet of a Google Docs export: c1 is a code font, c3 bold, c4 italic
SHEET ==
    <<Rule(<<".", "c1">>, <<DQ, "Courier New", DQ>>, Weight(400), <<"normal">>),
      Rule(<<".", "c2">>, <<DQ, "Arial", DQ>>, Weight(400), <<"normal">>),
      Rule(<<".", "c3">>, <<>>, Weight(700), <<>>),
      Rule(<<".", "c4">>, <<>>, NoWeight, <<"italic">>)>>

REDIRECT == <<GOOGLE_URL, "?", "q", "=", "https://example.com", "&", "sa", "=", "D">>

GeneralBlocks ==
    { ElA("p", [id |-> "h.1", class |-> <<"c0">>, style |-> "margin:0", href |-> <<>>],
          <<ElC("span", <<"c2">>, <<Tx(<<"h", "i">>)>>)>>),
      ElC("p", <<"c0">>, <<ElC("span", <<"c1">>, <<Tx(DEF_ \o <<"f">>)>>)>>),
      ElC("pre", <<"c9">>, <<Tx(IMPORT_ \o <<"x">>)>>),
      El("p", <<ElC("span", <<"c3", "c4">>, <<Tx(<<"b">>)>>),
                ElA("a", [id |-> "l1", class |-> <<>>, style |-> "-", href |-> REDIRECT],
                    <<Tx(<<"l">>)>>)>>),
      El("table", <<El("tr", <<ElA("td", [id |-> "-", class |-> <<"c5">>, style |-> "width:1pt", href |-> <<>>],
                                   <<Tx(<<BT, "t", BT>>)>>)>>)>>),
      El("p", <<El("span", <<>>)>>),
      El("p", <<Tx(<<"s", "e", "e", " ", BT, IMG, BT>>)>>) }

MaxBlocks == 2

Init ==
    InitWith(Documents(GeneralBlocks, MaxBlocks), {<<SHEET>>, <<>>}, BOOLEAN,
             {"pipeline"} \cup Range(PIPELINE))

Spec == Init /\ [][Next]_vars

\* whether n is in the document: soup.find_all would reach it
InSoup(h, n) == n \in Range(SoupTags(h)) \/ n \in Range(Descendants(h, ROOT))

Returned(name) == call = name /\ pc = "done"

----------------------------------------------------------------------------
(* C1 *)

\* C1 as stated: after process_google_doc_html returns, no element of the tree
\* carries an id, class or style attribute.
C1_NoIdClassStyle ==
    Returned("pipeline") =>
        \A n \in Range(SoupTags(soup)) :
            soup[n].attrs.id = "-" /\ soup[n].attrs.class = <<>> /\ soup[n].attrs.style = "-"

\* C1 amended: after process_google_doc_html returns, no element that came with
\* the document, and no pre or code element, carries an id or a style attribute;
\* the only class attribute any of them carries is class=python, on a pre.
\* (The elements left out are those fix_backticks makes by parsing a text that
\* spells out markup.)
C1_OnlyPythonClassLeft ==
    Returned("pipeline") =>
        \A n \in Range(SoupTags(soup)) :
            (n <= Len(soup0) \/ soup[n].tag \in {"pre", "code"}) =>
                /\ soup[n].attrs.id = "-"
                /\ soup[n].attrs.style = "-"
                /\ soup[n].attrs.class # <<>> =>
                       soup[n].tag = "pre" /\ soup[n].attrs.class = <<"python">>

\* a returned run on a document that carried all three attributes, with a pre
\* marked python in the result
C1_Witness ==
    /\ Returned("pipeline")
    /\ \E n \in 1..Len(soup0) :
           /\ soup0[n].attrs.id # "-" /\ soup0[n].attrs.class # <<>> /\ soup0[n].attrs.style # "-"
           /\ InSoup(soup, n)
    /\ \E n \in Range(SoupTags(soup)) : soup[n].attrs.class = <<"python">>

----------------------------------------------------------------------------
(* Code building blocks: the documents of C2 and C3 *)

\* the paragraphs of an export around an inserted code block, and the blank
\* text the parser keeps between two paragraphs
BlockParas ==
    { El("p", <<ElC("span", <<"c2">>, <<Tx(<<"t">>)>>)>>),
      ElC("p", <<"c0">>, <<El("span", <<Tx(<<SOB>>)>>),
                           ElC("span", <<"c8">>, <<Tx(<<NBSP, "x">>)>>)>>),
      El("p", <<ElC("span", <<"c5">>, <<Tx(<<"y">>), El("br", <<>>)>>),
                ElC("span", <<"c7">>, <<Tx(<<" ", "z">>)>>)>>),
      El("p", <<ElC("span", <<"c1">>, <<Tx(<<EOB>>)>>)>>),
      El("p", <<ElC("span", <<"c2">>, <<Tx(<<EOB, "n">>)>>)>>),
      El("p", <<El("span", <<Tx(<<EOB>>)>>), ElC("span", <<"c2">>, <<Tx(<<"m">>)>>)>>),
      Tx(<<LF, " ">>) }

MaxLines == 4

InitBlocks ==
    \/ InitWith(Documents(BlockParas, MaxLines), {<<SHEET>>}, {TRUE},
                {"process_building_block_code"})
    \/ InitWith(Documents(BlockParas, MaxBlocks), {<<SHEET>>, <<>>}, BOOLEAN, {"pipeline"})

SpecBlocks == InitBlocks /\ [][Next]_vars

\* the start and end spans below a body child, in the document as handed in
StartSpans(h, p) == SelectSeq(Descendants(h, p), LAMBDA d : IsMarkSpan(h, d, SOB))
EndSpans(h, p)   == SelectSeq(Descendants(h, p), LAMBDA d : IsMarkSpan(h, d, EOB))

HasChar(h, n, c) == c \in Range(GetText(h, n))

\* the position in ks of the first element carrying the character c, 0 if none
RECURSIVE FirstWith(_, _, _, _)
FirstWith(h, ks, c, i) ==
    IF i > Len(ks) THEN 0
    ELSE IF IsTag(h, ks[i]) /\ HasChar(h, ks[i], c) THEN i
    ELSE FirstWith(h, ks, c, i + 1)

\* the least of a set of positions, 0 for the empty set
Least(S) == IF S = {} THEN 0 ELSE CHOOSE i \in S : \A j \in S : i <= j

\* n is still a child of <body>, with the markup it came with
Kept(n) == soup[n].parent = BODY /\ n \in Range(soup[BODY].kids) /\ Markup(soup, n) = Markup(soup0, n)

----------------------------------------------------------------------------
(* C2 *)

\* C2 as stated: process_building_block_code leaves everything outside the
\* sentinel-delimited range untouched.  In a document with one start-sentinel
\* paragraph, closed by the first later paragraph that carries the end sentinel
\* character: every paragraph before the start paragraph is kept as it was; the
\* text that follows the end sentinel character in its paragraph is the text of a
\* paragraph after the pre and is not in the pre's text; every later paragraph is
\* kept as it was, after the pre.
C2_OutsideUntouched ==
    Returned("process_building_block_code") =>
        LET ks     == soup0[BODY].kids
            starts == {i \in 1..Len(ks) : IsTag(soup0, ks[i]) /\ StartSpans(soup0, ks[i]) # <<>>}
            s      == Least(starts)
            e      == Least({i \in (s + 1)..Len(ks) : IsTag(soup0, ks[i]) /\ HasChar(soup0, ks[i], EOB)})
            tail   == After(GetText(soup0, ks[e]), {EOB})
            later  == {i \in (e + 1)..Len(ks) : IsTag(soup0, ks[i])}
            body   == soup[BODY].kids
            pres   == {n \in Range(body) : soup[n].tag = "pre"}
        IN (Cardinality(starts) = 1 /\ e # 0 /\ \A i \in later : ~HasChar(soup0, ks[i], EOB)) =>
               /\ \A i \in 1..(s - 1) : IsTag(soup0, ks[i]) => Kept(ks[i])
               /\ \A i \in later :
                      /\ Kept(ks[i])
                      /\ \A n \in pres : IndexOf(body, n) < IndexOf(body, ks[i])
               /\ tail # <<>> =>
                      /\ \E n \in Range(body) : soup[n].tag = "p" /\ GetText(soup, n) = tail
                      /\ \A n \in pres : ~Contains(GetText(soup, n), tail)

----------------------------------------------------------------------------
(* C3 *)

\* the text of a line as C3 reads it off the document: its strings in document
\* order, a line feed for each br, nothing for what lies below a sentinel span
RECURSIVE C3_LineChars(_, _, _)
C3_LineChars(h, ds, skip) ==
    IF ds = <<>> THEN <<>>
    ELSE LET d == Head(ds)
         IN (IF d \in skip THEN <<>>
             ELSE IF IsString(h, d) THEN h[d].chars
             ELSE IF h[d].tag = "br" THEN <<LF>>
             ELSE <<>>) \o C3_LineChars(h, Tail(ds), skip)

\* what C3 says the children of <body> become.  A paragraph holding a start span
\* opens a range; the range is closed if the first later paragraph carrying the
\* end sentinel carries it in an end span.  items: the markup up to the first
\* range that is not closed (open), gone: the paragraphs of the closed ranges.
RECURSIVE C3_Expected(_, _)
C3_Expected(h, ks) ==
    IF ks = <<>> THEN [items |-> <<>>, open |-> FALSE, gone |-> {}]
    ELSE LET k == Head(ks)
         IN IF IsString(h, k) \/ StartSpans(h, k) = <<>>
            THEN LET r == C3_Expected(h, Tail(ks))
                 IN [r EXCEPT !.items = <<Markup(h, k)>> \o @]
            ELSE LET sibs == Tail(ks)
                     e    == FirstWith(h, sibs, EOB, 1)
                 IN IF e = 0 \/ EndSpans(h, sibs[e]) = <<>>
                    THEN [items |-> <<>>, open |-> TRUE, gone |-> {}]
                    ELSE LET range   == <<k>> \o SubSeq(sibs, 1, e)
                             lines   == SelectSeq(range, LAMBDA n : IsTag(h, n))
                             between == SelectSeq(range, LAMBDA n : IsString(h, n))
                             marks   == {StartSpans(h, k)[1], EndSpans(h, sibs[e])[1]}
                             skip    == marks \cup UNION {Range(Descendants(h, m)) : m \in marks}
                             text    == TranslateNbsp(JoinWith(<<LF>>,
                                            [i \in 1..Len(lines) |->
                                                CollapseBreaks(C3_LineChars(h, Descendants(h, lines[i]), skip))]))
                             r       == C3_Expected(h, SubSeq(sibs, e + 1, Len(sibs)))
                         IN [items |-> <<El("pre", <<Tx(text)>>)>> \o MarkupOfSeq(h, between) \o r.items,
                             open  |-> r.open,
                             gone  |-> Range(lines) \cup r.gone]

----------------------------------------------------------------------------
(* Code-font spans: the documents of C4, C5 and C6 *)

\* paragraphs of code lines (class c1 is the code font of SHEET), a code line
\* typed with a soft line break, a code line in bold, plain text, code spans
\* inline, a code span in a list item, and a pre that was in the document
MarkBlocks ==
    { El("p", <<ElC("span", <<"c1">>, <<Tx(<<"a=1">>)>>)>>),
      El("p", <<ElC("span", <<"c1", "c0">>, <<Tx(<<"b=2">>)>>)>>),
      El("p", <<ElC("span", <<"c1">>, <<Tx(<<"c">>), El("br", <<>>), Tx(<<"d">>)>>)>>),
      El("div", <<ElC("span", <<"c1">>, <<El("b", <<Tx(<<"e">>)>>)>>)>>),
      El("p", <<ElC("span", <<"c2">>, <<Tx(<<"t">>)>>)>>),
      El("p", <<Tx(<<"u">>), ElC("span", <<"c1">>, <<Tx(<<"v">>)>>),
                ElC("span", <<"c1">>, <<Tx(<<"w">>)>>)>>),
      El("ul", <<El("li", <<ElC("span", <<"c1">>, <<Tx(<<"x">>)>>)>>)>>),
      El("pre", <<Tx(<<"k">>)>>) }

MaxRun == 3

InitMark ==
    \/ InitWith(Documents(MarkBlocks, MaxRun), {<<SHEET>>}, BOOLEAN, {"mark_code_blocks"})
    \/ InitWith(Documents(MarkBlocks, MaxBlocks), {<<SHEET>>, <<>>}, BOOLEAN, {"pipeline"})

SpecMark == InitMark /\ [][Next]_vars

\* a span of the document handed in that carries a recognised code-font class
IsCodeSpan(n) ==
    /\ soup0[n].tag = "span"
    /\ \E i \in 1..Len(soup0[n].attrs.class) :
           <<soup0[n].attrs.class[i]>> \in extract_code_styles(styles)

\* a child of <body> that is a container whose sole child is a code-class span
IsCodeLine(n) ==
    /\ soup0[n].tag \in CONTAINERS
    /\ Len(soup0[n].kids) = 1
    /\ IsCodeSpan(soup0[n].kids[1])

----------------------------------------------------------------------------
(* C4 *)

\* C4 as stated: every run of two or more consecutive paragraphs (p, div or td),
\* each with a code-class span as its sole child, is one pre after
\* mark_code_blocks, its text the lines' texts in document order joined by CR LF,
\* and no paragraph of the run remains.
C4_RunsCollapse ==
    Returned("mark_code_blocks") =>
        LET ks   == soup0[BODY].kids
            Line(i) == i \in 1..Len(ks) /\ IsCodeLine(ks[i])
            body == soup[BODY].kids
        IN \A i \in 1..Len(ks), j \in 1..Len(ks) :
               (/\ i < j
                /\ \A k \in i..j : Line(k)
                /\ ~Line(i - 1) /\ ~Line(j + 1)) =>
                   /\ \E n \in Range(body) :
                          /\ soup[n].tag = "pre"
                          /\ GetText(soup, n) =
                                 JoinWith(<<CR, LF>>, [k \in 1..(j - i + 1) |-> GetText(soup0, ks[i + k - 1])])
                   /\ \A k \in i..j : ~(InSoup(soup, ks[k]) /\ soup[ks[k]].tag \in CONTAINERS)

----------------------------------------------------------------------------
(* C5 *)

\* C5 as stated: a p, div or td whose sole child is a code-class span is, after
\* mark_code_blocks, a pre that holds exactly the text of the span, whatever the
\* span holds.  (Stated for a line with no pre and no code line before it and no
\* code line after it, so that nothing is merged into it.)
C5_TextKept ==
    Returned("mark_code_blocks") =>
        LET ks == soup0[BODY].kids
        IN \A i \in 1..Len(ks) :
               (/\ IsCodeLine(ks[i])
                /\ i > 1 => soup0[ks[i - 1]].tag # "pre" /\ ~IsCodeLine(ks[i - 1])
                /\ i < Len(ks) => ~IsCodeLine(ks[i + 1])) =>
                   /\ InSoup(soup, ks[i])
                   /\ soup[ks[i]].tag = "pre"
                   /\ GetText(soup, ks[i]) = GetText(soup0, ks[i])

----------------------------------------------------------------------------
(* C6 *)

\* C6 as stated: after mark_code_blocks no span that carries a recognised
\* code-font class is left in the tree as a span, whatever its parent is.
C6_NoPlainSpanLeft ==
    Returned("mark_code_blocks") =>
        \A n \in 1..Len(soup0) :
            IsCodeSpan(n) => ~(InSoup(soup, n) /\ soup[n].tag = "span")

----------------------------------------------------------------------------
(* pre and code elements that come with the document: C7 and C8 *)

CodeBlocks ==
    { El("pre", <<Tx(<<"a", " ", BT, "b", BT>>)>>),
      El("pre", <<Tx(<<"k">>)>>),
      El("p", <<ElC("span", <<"c1">>, <<Tx(<<"y">>)>>)>>),
      El("p", <<Tx(<<"s", " ">>), El("code", <<Tx(<<"g">>)>>), Tx(<<" ", "e">>)>>),
      El("p", <<El("code", <<Tx(DEF_ \o <<"f">>)>>)>>),
      El("p", <<Tx(<<"s">>), El("code", <<Tx(<<"g">>)>>), ElC("span", <<"c1">>, <<Tx(<<"h">>)>>)>>),
      El("table", <<El("tr", <<El("td", <<El("code", <<Tx(<<"f">>)>>)>>)>>)>>),
      El("table", <<El("tr", <<El("td", <<Tx(<<"s">>), El("code", <<Tx(<<"g">>)>>)>>),
                               El("td", <<El("code", <<Tx(<<"f">>)>>)>>)>>)>>),
      El("div", <<El("code", <<Tx(<<BT, "q", BT>>)>>)>>),
      El("p", <<El("code", <<Tx(<<"g">>)>>), El("span", <<Tx(<<"r">>)>>)>>) }

MaxCode == 2

InitCode == InitWith(Documents(CodeBlocks, MaxCode), {<<SHEET>>, <<>>}, BOOLEAN, {"pipeline"})

SpecCode == InitCode /\ [][Next]_vars

----------------------------------------------------------------------------
(* C7 *)

\* C7 as stated: every pre of the input tree has, after process_google_doc_html,
\* the text content it had before.
C7_PreTextKept ==
    Returned("pipeline") =>
        \A n \in 1..Len(soup0) :
            soup0[n].tag = "pre" =>
                InSoup(soup, n) /\ GetText(soup, n) = GetText(soup0, n)

----------------------------------------------------------------------------
(* C8 *)

\* the code elements of the input whose parent is a p, div or td
InputCodes == {c \in 1..Len(soup0) : soup0[c].tag = "code" /\ soup0[soup0[c].parent].tag \in CONTAINERS}

\* what C8 says of one code element c of the input and its container
C8_Holds(c) ==
    LET p == soup0[c].parent
    IN IF Len(soup0[p].kids) = 1
       THEN /\ InSoup(soup, p)
            /\ soup[p].tag = "pre"
            /\ \A k \in Range(soup[p].kids) : IsString(soup, k)
            /\ GetText(soup, p) = GetText(soup0, c)
       ELSE /\ InSoup(soup, c)
            /\ soup[c].tag = "code"
            /\ soup[c].parent = p
            /\ GetText(soup, c) = GetText(soup0, c)
            /\ soup[p].tag = soup0[p].tag
            /\ SelectSeq(soup[p].kids, LAMBDA k : k \in Range(soup0[p].kids))
                   = SelectSeq(soup0[p].kids, LAMBDA k : InSoup(soup, k))

C8_Covered(c) ==
    LET p     == soup0[c].parent
        h2    == process_building_block_code(remove_single_cell_tables(soup0).h).h
        after == NextSiblings(soup0, c)
    IN /\ InSoup(h2, p) /\ h2[c].parent = p
       /\ \A k \in Range(soup0[c].kids) : IsString(soup0, k)
       /\ BT \notin Range(GetText(soup0, c))
       /\ after # <<>> =>
              after[1] \notin Range(FindSpans(soup0, extract_code_styles(styles), legacy))

----------------------------------------------------------------------------
(* Backticks: the documents of C9 *)

URL == <<"https://huggingface.co/datasets">>

Link(ks) == ElA("a", [NoAttrs EXCEPT !.href = URL], ks)

\* a link in a span whose text is in backticks; the same with a text that spells
\* markup, with an element next to the text, and with a line break between the
\* backticks; backtick text in a list item; plain text
TickBlocks ==
    { El("p", <<ElC("span", <<"c2">>, <<Link(<<Tx(<<BT, "x", BT>>)>>)>>)>>),
      El("p", <<ElC("span", <<"c2">>, <<Link(<<Tx(<<BT, IMG, BT>>)>>)>>)>>),
      El("p", <<El("span", <<Link(<<Tx(<<"s", " ", BT, "x", BT>>), El("b", <<Tx(<<"y">>)>>)>>)>>)>>),
      El("p", <<El("b", <<Tx(<<BT, "x", LF, "y", BT>>)>>)>>),
      El("ul", <<El("li", <<Tx(<<" ", BT, "x", BT, " ", "z">>)>>)>>),
      El("p", <<Tx(<<"t">>)>>) }

MaxTicks == 3

InitTick ==
    InitWith(Documents(TickBlocks, MaxTicks), {<<SHEET>>}, {TRUE}, {"fix_backticks", "pipeline"})

SpecTick == InitTick /\ [][Next]_vars

\* the elements above n, nearest first
RECURSIVE Ancestors(_, _)
Ancestors(h, n) == IF h[n].parent = 0 THEN <<>> ELSE <<h[n].parent>> \o Ancestors(h, h[n].parent)

\* the backtick pairs of a text: two backticks with no backtick and no line feed
\* between them
TickPairs(s) ==
    {ij \in (1..Len(s)) \X (1..Len(s)) :
        /\ ij[1] < ij[2] /\ s[ij[1]] = BT /\ s[ij[2]] = BT
        /\ \A k \in (ij[1] + 1)..(ij[2] - 1) : s[k] \notin {BT, LF}}

\* the text between the first pair of backticks
FirstTicked(s) ==
    LET ij == CHOOSE x \in TickPairs(s) : \A y \in TickPairs(s) : x[1] <= y[1]
    IN SubSeq(s, ij[1] + 1, ij[2] - 1)

----------------------------------------------------------------------------
(* C9 *)

\* C9 as stated: when a text with a backtick pair is held directly by an element
\* nested in other elements, then after fix_backticks every enclosing element is
\* where it was, with its tag, its attributes and (above the holder) its children,
\* and the holder contains a code element whose text is the text between the
\* backticks.
C9_EnclosingKeptCodeMade ==
    Returned("fix_backticks") =>
        \A t \in 1..Len(soup0) : \A k \in Range(soup0[t].kids) :
            (/\ IsString(soup0, k) /\ TickPairs(soup0[k].chars) # {}
             /\ soup0[t].parent \notin {0, ROOT, BODY}) =>
                /\ \A a \in {t} \cup Range(Ancestors(soup0, t)) :
                       /\ InSoup(soup, a)
                       /\ soup[a].tag = soup0[a].tag
                       /\ soup[a].attrs = soup0[a].attrs
                       /\ soup[a].parent = soup0[a].parent
                       /\ a # t => soup[a].kids = soup0[a].kids
                /\ \E c \in Range(soup[t].kids) :
                       soup[c].tag = "code" /\ GetText(soup, c) = FirstTicked(soup0[k].chars)

----------------------------------------------------------------------------
(* Tables: the documents of C10 *)

Cell(ks) == El("td", ks)
Row(cells) == El("tr", cells)

\* a single-cell table, one with a table body, one whose cell holds a table of
\* two cells, a row of a header cell and a data cell, two cells, two rows, and a
\* paragraph
TableBlocks ==
    { El("table", <<Row(<<Cell(<<Tx(<<"X">>)>>)>>)>>),
      El("table", <<El("tbody", <<Row(<<Cell(<<Tx(<<"X">>)>>)>>)>>)>>),
      El("table", <<Row(<<Cell(<<El("table", <<Row(<<Cell(<<Tx(<<"a">>)>>), Cell(<<Tx(<<"b">>)>>)>>)>>)>>)>>)>>),
      El("table", <<Row(<<El("th", <<Tx(<<"h">>)>>), Cell(<<Tx(<<"d">>)>>)>>)>>),
      El("table", <<Row(<<Cell(<<Tx(<<"a">>)>>), Cell(<<Tx(<<"b">>)>>)>>)>>),
      El("table", <<Row(<<Cell(<<Tx(<<"a">>)>>)>>), Row(<<Cell(<<Tx(<<"b">>)>>)>>)>>),
      El("p", <<Tx(<<"t">>)>>) }

MaxTables == 3

InitTable ==
    InitWith(Documents(TableBlocks, MaxTables), {<<SHEET>>}, {TRUE},
             {"remove_single_cell_tables", "pipeline"})

SpecTable == InitTable /\ [][Next]_vars

\* the rows of a table (its own, or those of its table body) and the cells of a row
RowsOf(h, t) ==
    LET Below(n) == SelectSeq(h[n].kids, LAMBDA k : h[k].tag = "tr")
        bodies   == SelectSeq(h[t].kids, LAMBDA k : h[k].tag = "tbody")
    IN Below(t) \o (IF bodies = <<>> THEN <<>> ELSE Below(bodies[1]))

CellsOf(h, r) == SelectSeq(h[r].kids, LAMBDA k : h[k].tag \in {"td", "th"})

----------------------------------------------------------------------------
(* C10 *)

\* what C10 says a sequence of nodes becomes: a table of one row of one cell is
\* replaced by what its cell holds (treated the same way), any other table is
\* left as it is, and any other element keeps its place
RECURSIVE C10_Expected(_, _)
C10_Expected(h, ks) ==
    IF ks = <<>> THEN <<>>
    ELSE LET k    == Head(ks)
             rows == RowsOf(h, k)
         IN (IF h[k].tag = "table" /\ Len(rows) = 1 /\ Len(CellsOf(h, rows[1])) = 1
             THEN C10_Expected(h, h[CellsOf(h, rows[1])[1]].kids)
             ELSE IF h[k].tag = "table" THEN <<Markup(h, k)>>
             ELSE <<[Markup(h, k) EXCEPT !.kids = C10_Expected(h, h[k].kids)]>>)
            \o C10_Expected(h, Tail(ks))

\* C10 as stated: remove_single_cell_tables replaces every table of exactly one
\* row with exactly one cell by the content of that cell, at the table's place (no
\* table, table body, row or cell of it left), also when the cell holds a table;
\* every table with more rows or more cells, of any kind, is left unchanged.
C10_SingleCellTablesFlattened ==
    Returned("remove_single_cell_tables") =>
        Body(soup) = C10_Expected(soup0, soup0[BODY].kids)

----------------------------------------------------------------------------
(* Links: the documents of C11 *)

Anchor(href) == El("p", <<ElA("a", [NoAttrs EXCEPT !.href = href], <<Tx(<<"l">>)>>)>>)

\* a redirect as Google Docs writes it, one with an escaped target and two q
\* fields, one without a q field, a plain link, a link to another site whose
\* query names the redirect address, the same with a q field of its own, and an
\* anchor without href
LinkBlocks ==
    { Anchor(REDIRECT),
      Anchor(<<GOOGLE_URL, "?", "q", "=", "https://a.io/", PCT3F, "x", "&", "q", "=", "B">>),
      Anchor(<<GOOGLE_URL, "?", "sa", "=", "D">>),
      Anchor(<<"https://example.com">>),
      Anchor(<<"https://example.com/", "?", "u", "=", GOOGLE_URL>>),
      Anchor(<<"https://example.com/", "?", "q", "=", "z", "&", "u", "=", GOOGLE_URL>>),
      Anchor(<<>>) }

MaxLinks == 3

InitLinks ==
    InitWith(Documents(LinkBlocks, MaxLinks), {<<SHEET>>}, {TRUE}, {"fix_google_links", "pipeline"})

SpecLinks == InitLinks /\ [][Next]_vars

\* an href that is a Google outbound-redirect URL: https://www.google.com/url?...
IsRedirect(href) == Len(href) >= 2 /\ href[1] = GOOGLE_URL /\ href[2] = "?"

Finished(name) == call = name /\ pc \in {"done", "raised"}

----------------------------------------------------------------------------
(* C11 *)

\* C11 as stated: fix_google_links sets the href of every anchor whose href is a
\* redirect URL to the first value of its q parameter, and leaves every other
\* href as it is, without raising (when every redirect URL of the document has a
\* q parameter there is nothing to raise about).
C11_RedirectsRewritten ==
    Finished("fix_google_links") =>
        LET links == {a \in 1..Len(soup0) : soup0[a].tag = "a"}
            Q(a)  == FirstValue(QueryOf(soup0[a].attrs.href), "q")
        IN /\ (\A a \in links : IsRedirect(soup0[a].attrs.href) => Q(a) # <<>>) => pc = "done"
           /\ pc = "done" =>
                  \A a \in links :
                      IF IsRedirect(soup0[a].attrs.href)
                      THEN Q(a) # <<>> => soup[a].attrs.href = Q(a)
                      ELSE soup[a].attrs.href = soup0[a].attrs.href

----------------------------------------------------------------------------
(* Bold and italic spans: the documents of C12 *)

\* a stylesheet that names its italic class before its bold class, and has a
\* class that is both
SHEET_ITALIC_FIRST ==
    <<Rule(<<".", "c4">>, <<>>, NoWeight, <<"italic">>),
      Rule(<<".", "c3">>, <<>>, Weight(700), <<"normal">>),
      Rule(<<".", "c6">>, <<>>, Weight(700), <<"italic">>)>>

StyleBlocks ==
    { El("p", <<ElC("span", <<"c3", "c4">>, <<Tx(<<"x">>)>>)>>),
      El("p", <<ElC("span", <<"c4", "c3">>, <<Tx(<<"y">>)>>)>>),
      El("p", <<ElC("span", <<"c3">>, <<Tx(<<"w">>)>>), ElC("span", <<"c4">>, <<Tx(<<"i">>)>>)>>),
      El("p", <<ElC("span", <<"c6">>, <<Tx(<<"z">>)>>)>>),
      El("p", <<ElC("span", <<"c2">>, <<Tx(<<"t">>)>>), ElC("em", <<"c3", "c4">>, <<Tx(<<"e">>)>>)>>) }

MaxSpans == 3

InitStyle ==
    InitWith(Documents(StyleBlocks, MaxSpans), {<<SHEET>>, <<SHEET_ITALIC_FIRST>>, <<SHEET, SHEET_ITALIC_FIRST>>},
             BOOLEAN, {"replace_style_spans", "pipeline"})

SpecStyle == InitStyle /\ [][Next]_vars

\* the spans of the input whose classes are matched by both classifications
BothStyles ==
    LET st == extract_span_styles(styles)
    IN {n \in 1..Len(soup0) :
           /\ soup0[n].tag = "span"
           /\ \E k \in 1..Len(soup0[n].attrs.class) : soup0[n].attrs.class[k] \in {c[1] : c \in Range(st.b)}
           /\ \E k \in 1..Len(soup0[n].attrs.class) : soup0[n].attrs.class[k] \in {c[1] : c \in Range(st.i)}}

----------------------------------------------------------------------------
(* C12 *)

\* C12 as stated: a span matched by both the bold and the italic classification
\* ends, after replace_style_spans, with the tag of the classification applied
\* last in the iteration over the two keys.
C12_LastAppliedWins ==
    Returned("replace_style_spans") =>
        LET order == extract_span_styles(styles).order
        IN \A n \in BothStyles : soup[n].tag = order[Len(order)]

\* C12 amended: a span matched by both classifications ends with the tag of the
\* classification applied first in the iteration over the two keys; the second
\* search is for spans and no longer finds it.
C12_FirstAppliedWins ==
    Returned("replace_style_spans") =>
        LET order == extract_span_styles(styles).order
        IN \A n \in BothStyles : soup[n].tag = order[1]

\* a returned call on a document with a span matched by both classifications,
\* under a stylesheet that gave the dict both keys
C12_Witness ==
    /\ Returned("replace_style_spans")
    /\ Len(extract_span_styles(styles).order) = 2
    /\ \E n \in BothStyles : soup[n].tag = "i"
    /\ \E n \in 1..Len(soup0) : soup0[n].tag = "span" /\ n \notin BothStyles /\ soup[n].tag = "b"

----------------------------------------------------------------------------
(* pre elements: the documents of C13 *)

\* a pre with an import, one with other code, an empty one, one whose text is in
\* two strings, two with a nested element, and a paragraph
PreBlocks ==
    { El("pre", <<Tx(IMPORT_ \o <<"x">>)>>),
      El("pre", <<Tx(<<"x", "=", "1">>)>>),
      El("pre", <<>>),
      El("pre", <<Tx(<<"d", "e">>), Tx(<<"f", " ", "g">>)>>),
      El("pre", <<Tx(IMPORT_), El("b", <<Tx(<<"x">>)>>)>>),
      El("pre", <<El("b", <<Tx(<<"y">>)>>)>>),
      El("p", <<Tx(IMPORT_ \o <<"x">>)>>) }

MaxPres == 3

InitPres ==
    InitWith(Documents(PreBlocks, MaxPres), {<<SHEET>>}, {TRUE}, {"identify_code_blocks", "pipeline"})

SpecPres == InitPres /\ [][Next]_vars

----------------------------------------------------------------------------
(* C13 *)

\* C13 as stated: identify_code_blocks never raises, and when it is done a pre
\* carries the python class if and only if its text content, whatever its
\* children are, contains "import " or "def ".
C13_PythonIffKeyword ==
    Finished("identify_code_blocks") =>
        /\ pc = "done"
        /\ \A n \in 1..Len(soup0) :
               soup0[n].tag = "pre" =>
                   (soup[n].attrs.class = <<"python">>
                        <=> (Contains(GetText(soup0, n), IMPORT_) \/ Contains(GetText(soup0, n), DEF_)))

----------------------------------------------------------------------------
(* Stylesheets the classifier has trouble with: the documents of C14 *)

\* a stylesheet whose bold class gives its weight as a word
SHEET_WORD ==
    <<Rule(<<".", "c1">>, <<DQ, "Consolas", DQ>>, NoWeight, <<>>),
      Rule(<<".", "c4">>, <<>>, NoWeight, <<"italic">>),
      Rule(<<".", "c3">>, <<>>, WeightWord, <<>>)>>

MaxParas == 2

InitSheet ==
    InitWith(Documents(StyleBlocks \cup MarkBlocks, MaxParas), {<<SHEET>>, <<SHEET_WORD>>, <<SHEET, SHEET_WORD>>},
             BOOLEAN, {"pipeline"})

SpecSheet == InitSheet /\ [][Next]_vars

----------------------------------------------------------------------------
(* C14 *)

\* C14 as stated: a stylesheet rule the classifier cannot interpret never aborts
\* process_google_doc_html: no pass raises, the rule contributes no class, the
\* classes of the other rules are applied, and the last pass is reached.
C14_NoAbort ==
    call = "pipeline" =>
        /\ pc # "raised"
        /\ pc = "done" =>
               \A n \in 1..Len(soup0) :
                   (soup0[n].tag = "span" /\ soup0[n].attrs.class = <<"c4">>) =>
                       InSoup(soup, n) /\ soup[n].tag = "i"

----------------------------------------------------------------------------
(* C15 *)

\* C15 as stated: after fix_backticks every element whose direct text held a
\* backtick pair, alone or next to other children, has a code element among its
\* children and no backtick pair left in its direct text.
C15_PairsConverted ==
    Returned("fix_backticks") =>
        \A t \in 1..Len(soup0) :
            (\E k \in Range(soup0[t].kids) : IsString(soup0, k) /\ TickPairs(soup0[k].chars) # {}) =>
                /\ InSoup(soup, t)
                /\ \E c \in Range(soup[t].kids) : soup[c].tag = "code"
                /\ \A k \in Range(soup[t].kids) : IsString(soup, k) => TickPairs(soup[k].chars) = {}

----------------------------------------------------------------------------
(* Spans of a match list that an earlier iteration removes: the documents of C16 *)

\* a start paragraph, a middle paragraph, an end paragraph, a pre, a code line, a
\* code line whose code-class span holds another code-class span, and a code-class
\* span around a div around a code-class span
DeadBlocks ==
    { El("p", <<El("span", <<Tx(<<SOB>>)>>), ElC("span", <<"c1">>, <<Tx(<<"x">>)>>)>>),
      El("p", <<ElC("span", <<"c2">>, <<Tx(<<"y">>)>>)>>),
      El("p", <<El("span", <<Tx(<<EOB>>)>>)>>),
      El("pre", <<Tx(<<"k">>)>>),
      El("p", <<ElC("span", <<"c1">>, <<Tx(<<"c">>)>>)>>),
      El("p", <<ElC("span", <<"c1">>, <<Tx(<<"a">>), ElC("span", <<"c1">>, <<Tx(<<"b">>)>>)>>)>>),
      El("p", <<ElC("span", <<"c1">>, <<El("div", <<ElC("span", <<"c1">>, <<Tx(<<"d">>)>>)>>)>>)>>) }

MaxDead == 3

InitDead ==
    InitWith(Documents(DeadBlocks, MaxDead), {<<SHEET>>}, {TRUE},
             {"process_building_block_code", "mark_code_blocks", "pipeline"})

SpecDead == InitDead /\ [][Next]_vars

\* the loop of process_building_block_code over its list, watched: every span
\* has a parent when its turn comes
RECURSIVE BlockSpansAttached(_, _)
BlockSpansAttached(h, spans) ==
    IF spans = <<>> THEN TRUE
    ELSE /\ h[Head(spans)].parent # 0
         /\ LET r == BuildingBlock(h, Head(spans))
            IN r.ok /\ BlockSpansAttached(r.h, Tail(spans))

\* the same for the first loop of mark_code_blocks
RECURSIVE MarkSpansAttached(_, _)
MarkSpansAttached(h, spans) ==
    IF spans = <<>> THEN TRUE
    ELSE /\ h[Head(spans)].parent # 0
         /\ LET r == MarkSpan(h, Head(spans))
            IN r.ok /\ MarkSpansAttached(r.h, Tail(spans))

----------------------------------------------------------------------------
(* C16 *)

\* C16 as stated: in a call of process_building_block_code or mark_code_blocks,
\* every span of the list made at the start of the pass still has a parent when
\* it is processed, so the pass never works on a node an earlier iteration
\* removed, and does not raise for it.
C16_SpansStillAttached ==
    /\ Finished("process_building_block_code") =>
           /\ BlockSpansAttached(soup0, SelectSeq(Descendants(soup0, ROOT),
                                                  LAMBDA d : IsMarkSpan(soup0, d, SOB)))
           /\ pc = "done"
    /\ Finished("mark_code_blocks") =>
           /\ MarkSpansAttached(soup0, FindSpans(soup0, extract_code_styles(styles), legacy))
           /\ pc = "done"

====
